---- MODULE Spec2Model ----
(***************************************************************************)
(* Model of scripts/clean_and_validate.py: the validators it defines, each *)
(* applied to a bounded family of tables (specification Spec), and the run *)
(* of the script itself, statement by statement (specification SpecRun).   *)
(*                                                                         *)
(* A table (pandas DataFrame) is a record                                  *)
(*   [columns |-> set of column names,                                     *)
(*    dtype   |-> [columns -> dtype name],                                 *)
(*    data    |-> [columns -> sequence of cells], all of one length].      *)
(* float64 cells are fixed-point integers: Price in 1/PriceScale, Discount *)
(* in 1/DiscScale, Revenue in 1/(PriceScale*DiscScale), so that the three  *)
(* revenue formulas are exact products.  NaN is the missing number, NaNStr *)
(* the missing cell of an object or datetime column.                       *)
(***************************************************************************)
EXTENDS Integers, Sequences, FiniteSets, TLC

VARIABLES
    df,       \* the table: a validator's argument (Spec), the raw file (SpecRun)
    call,     \* the validator last applied, with its arguments
    result,   \* what it returned or raised
    pc,       \* the script's position
    ns,       \* the names bound in the module's namespace
    out,      \* the output file: <<>> when absent, <<table>> when present
    out0,     \* the output file as it was before the run
    written,  \* whether the run has written the output file
    err,      \* the exception that ended the run
    ran       \* the calls the run has started, in order

vars == <<df, call, result, pc, ns, out, out0, written, err, ran>>

\* ------------------------------------------------------------------ bounds
MaxRows == 2
MaxMissing == 2
MaxMismatch == 2

\* --------------------------------------------------------- representation
PriceScale == 10
DiscScale == 10000
NaN == -999999
NaNStr == "<NaN>"

\* -------------------------------------------------------------- constants
REQUIRED_COLUMNS ==
    {"Date", "Product Name", "Category", "Units Sold", "Price", "Revenue",
     "Discount", "Units Returned", "Location", "Platform"}

ALLOWED_PRODUCT_NAMES ==
    {"Whey Protein", "Vitamin C", "Fish Oil", "Multivitamin", "Pre-Workout",
     "BCAA", "Creatine", "Zinc", "Collagen Peptides", "Magnesium",
     "Ashwagandha", "Melatonin", "Biotin", "Green Tea Extract",
     "Iron Supplement", "Electrolyte Powder"}

ALLOWED_CATEGORIES ==
    {"Vitamin", "Mineral", "Protein", "Performance", "Omega", "Amino Acid",
     "Herbal", "Sleep Aid", "Fat Burner", "Hydration"}

ALLOWED_LOCATIONS == {"Canada", "UK", "USA"}

ALLOWED_PLATFORMS == {"iHerb", "Amazon", "Walmart"}

\* TOLERANCE = 0.01, in Revenue units of 1/(PriceScale*DiscScale)
TOLERANCE == 1000

\* numpy.isclose's default rtol = 1e-05, as the denominator 1/RtolDen
RtolDen == 100000

expected_dtypes ==
    [c \in REQUIRED_COLUMNS |->
        CASE c = "Date" -> "datetime64[ns]"
          [] c \in {"Units Sold", "Units Returned"} -> "int64"
          [] c \in {"Price", "Revenue", "Discount"} -> "float64"
          [] OTHER -> "object"]

\* ------------------------------------------------------------ the tables
Rep(v, n) == [i \in 1..n |-> v]

\* One valid transaction: 10 units at 2.0 with discount 0.1, revenue 18.0.
BaseCell(c) ==
    CASE c = "Date" -> "2024-01-07"
      [] c = "Product Name" -> "Zinc"
      [] c = "Category" -> "Mineral"
      [] c = "Units Sold" -> 10
      [] c = "Price" -> 20
      [] c = "price" -> 20
      [] c = "Revenue" -> 1800000
      [] c = "Discount" -> 1000
      [] c = "Units Returned" -> 0
      [] c = "Location" -> "USA"
      [] OTHER -> "Amazon"

\* The dtype pandas gives a column that does not have its expected one.
OtherDtype(c) ==
    CASE c = "Date" -> "object"
      [] c \in {"Units Sold", "Units Returned"} -> "float64"
      [] c \in {"Price", "Revenue", "Discount"} -> "object"
      [] OTHER -> "float64"

BaseDtype(c) == IF c = "price" THEN "float64" ELSE expected_dtypes[c]

Table(cols, dt, dat) == [columns |-> cols, dtype |-> dt, data |-> dat]

BaseTable(n) ==
    Table(REQUIRED_COLUMNS,
          [c \in REQUIRED_COLUMNS |-> BaseDtype(c)],
          [c \in REQUIRED_COLUMNS |-> Rep(BaseCell(c), n)])

SmallSubsets(S, k) == {T \in SUBSET S : Cardinality(T) <= k}

\* The cells of a column read with the dtype dt: a categorical column read as
\* float64 is all missing, a numeric column read as object holds text.
ShapeCell(c, dt) ==
    IF dt = BaseDtype(c) \/ c = "Date" THEN BaseCell(c)
    ELSE IF dt = "object" THEN "abc"
    ELSE IF c \in {"Units Sold", "Units Returned"} THEN BaseCell(c)
    ELSE NaN

\* Tables lacking up to MaxMissing columns, with up to MaxMismatch columns
\* of another dtype than expected.
ShapeTables ==
    {Table(REQUIRED_COLUMNS \ M,
           [c \in REQUIRED_COLUMNS \ M |->
               IF c \in S THEN OtherDtype(c) ELSE BaseDtype(c)],
           [c \in REQUIRED_COLUMNS \ M |->
               Rep(ShapeCell(c, IF c \in S THEN OtherDtype(c) ELSE BaseDtype(c)), 1)]) :
        M \in SmallSubsets(REQUIRED_COLUMNS, MaxMissing),
        S \in SmallSubsets(REQUIRED_COLUMNS, MaxMismatch)}

Columns(n, vals) == UNION {[1..k -> vals] : k \in 1..n}

\* A full table whose column c holds the cells cs, the others valid.
WithColumn(c, dt, cs) ==
    LET b == BaseTable(Len(cs))
    IN  Table(b.columns, [b.dtype EXCEPT ![c] = dt], [b.data EXCEPT ![c] = cs])

\* int64 unless a cell is missing: pandas reads such a column as float64.
IntDtype(cs) == IF \E i \in 1..Len(cs) : cs[i] = NaN THEN "float64" ELSE "int64"

DiscountValues == {-1, 0, 1000, 10000, 10001, NaN}
DiscountTables ==
    {WithColumn("Discount", "float64", cs) : cs \in Columns(MaxRows, DiscountValues)}

PriceValues == {20, 0, -10, NaN}
PriceTables ==
    {WithColumn("Price", "float64", cs) : cs \in Columns(MaxRows, PriceValues)}

UnitsValues == {-1, 0, 10, 11, NaN}
ReturnedTables ==
    {WithColumn("Units Returned", IntDtype(cs), cs) : cs \in Columns(MaxRows, UnitsValues)}
SoldTables ==
    {WithColumn("Units Sold", IntDtype(cs), cs) : cs \in Columns(MaxRows, {-1, 9, NaN})}

\* 18.0, 20.0, 2.0, 0.2, 5.0, 20.0101, 18.01, 17.98 and a missing revenue
RevenueValues ==
    {1800000, 2000000, 200000, 20000, 500000, 2001010, 1801000, 1798000, NaN}
RevenueTables ==
    {WithColumn("Revenue", "float64", cs) : cs \in Columns(MaxRows, RevenueValues)}

\* The same, with an extra column named "price" beside "Price".
WithLowerPrice(t) ==
    Table(t.columns \cup {"price"},
          [c \in t.columns \cup {"price"} |->
              IF c = "price" THEN "float64" ELSE t.dtype[c]],
          [c \in t.columns \cup {"price"} |->
              IF c = "price" THEN t.data["Price"] ELSE t.data[c]])

PlatformValues == {"Amazon", " Amazon ", "amazon", "   ", NaNStr}
PlatformTables ==
    {WithColumn("Platform", "object", cs) : cs \in Columns(MaxRows, PlatformValues)}

Tables ==
    ShapeTables \cup DiscountTables \cup PriceTables \cup ReturnedTables
    \cup SoldTables \cup RevenueTables \cup {WithLowerPrice(t) : t \in RevenueTables}
    \cup PlatformTables

NRows(t) == IF t.columns = {} THEN 0 ELSE Len(t.data[CHOOSE c \in t.columns : TRUE])
Rows(t) == 1..NRows(t)

\* ------------------------------------------------------------ the results
NoMismatch == [c \in {} |-> <<"", "">>]

Returned == [exc |-> "", msg |-> "", cols |-> {}, mismatches |-> NoMismatch, count |-> 0]

Raise(e, m) == [Returned EXCEPT !.exc = e, !.msg = m]

\* ----------------------------------------------------------- the validators
validate_schema(t, required_columns) ==
    LET missing_columns == required_columns \ t.columns
    IN  IF missing_columns # {}
        THEN [Raise("ValueError", "Schema validation failed. Missing required columns")
                 EXCEPT !.cols = missing_columns]
        ELSE Returned

\* Series.isna(), cell by cell: None/NaN in an object column, NaT in a
\* datetime column, NaN in a numeric one.
IsNa(t, c, i) ==
    IF t.dtype[c] \in {"object", "datetime64[ns]"}
    THEN t.data[c][i] = NaNStr
    ELSE t.data[c][i] = NaN

AnyNa(t, c) == \E i \in Rows(t) : IsNa(t, c, i)

is_numeric_dtype(t, c) == t.dtype[c] \in {"int64", "float64"}

\* pd.to_datetime(..., errors="coerse"): the misspelt option is rejected as
\* soon as a value has to be parsed, and the rejection is re-raised as the
\* conversion error; a column that already is datetime64 is handed back
\* unparsed by some pandas versions and rejected by others.
convert_date(t) ==
    LET failed == Raise("ValueError", "Date conversion failed with error")
        kept == IF AnyNa(t, "Date")
                THEN Raise("ValueError", "Data conversion failed: invalid or missing date values found.")
                ELSE Returned
    IN  IF "Date" \notin t.columns THEN {failed}
        ELSE IF t.dtype["Date"] = "datetime64[ns]" THEN {failed, kept}
        ELSE {failed}

\* validate_dtypes stopping at the first mismatch it meets
validate_dtypes_first(t) ==
    LET bad == {c \in REQUIRED_COLUMNS \cap t.columns : t.dtype[c] # expected_dtypes[c]}
        first == CHOOSE c \in bad : TRUE
    IN  IF bad # {}
        THEN [Raise("ValueError", "Dtype validation failed")
                 EXCEPT !.mismatches = [c \in {first} |-> <<expected_dtypes[c], t.dtype[c]>>]]
        ELSE Returned

validate_dtypes(t) ==
    LET bad == {c \in REQUIRED_COLUMNS \cap t.columns : t.dtype[c] # expected_dtypes[c]}
        mismatches == [c \in bad |-> <<expected_dtypes[c], t.dtype[c]>>]
    IN  IF bad # {}
        THEN [Raise("ValueError", "Dtype validation failed") EXCEPT !.mismatches = mismatches]
        ELSE Returned

\* Line 172 names `od`, line 181 calls `.amy()`, line 194 names `colum`:
\* each raises as soon as it is evaluated.
validate_allowed_values(t, column, allowed_values, allow_null, normalize) ==
    IF column \notin t.columns
    THEN Raise("ValueError", "Allowed values validation failed: column not found.")
    ELSE IF normalize THEN Raise("NameError", "name 'od' is not defined")
    ELSE LET empty_as_na ==
                 {i \in Rows(t) : IsNa(t, column, i)
                                  \/ (t.dtype[column] = "object" /\ t.data[column][i] = "")}
             to_check == IF allow_null THEN Rows(t) \ empty_as_na ELSE Rows(t)
             invalid == {i \in to_check :
                            \/ t.dtype[column] # "object"
                            \/ t.data[column][i] \notin allowed_values}
         IN  IF ~allow_null
             THEN Raise("AttributeError", "'Series' object has no attribute 'amy'")
             ELSE IF invalid # {}
             THEN Raise("NameError", "name 'colum' is not defined")
             ELSE Returned

\* Line 205 binds `coumn`; line 207 reads `column`, bound nowhere.
validate_sold_units(t) == Raise("NameError", "name 'column' is not defined")

validate_units_returned(t) ==
    LET column == "Units Returned"
        sold_column == "Units Sold"
    IN  IF column \notin t.columns
        THEN Raise("ValueError", "Units Returned validation failed: column is missing.")
        ELSE IF sold_column \notin t.columns
        THEN Raise("ValueError", "Units Returned validation failed: required column is missing.")
        ELSE IF AnyNa(t, column)
        THEN Raise("ValueError", "Units Returned validation failed: missing values found.")
        ELSE IF t.dtype[column] = "object"
        THEN Raise("TypeError", "unsupported operand")
        ELSE IF ~ \A i \in Rows(t) : t.data[column][i] % 1 = 0
        THEN Raise("ValueError", "Units Returned validation failed: non-integer values found.")
        ELSE IF \E i \in Rows(t) : t.data[column][i] < 0
        THEN Raise("ValueError", "Units Returned validation failed: negative values found.")
        ELSE IF t.dtype[sold_column] = "object"
        THEN Raise("TypeError", "unsupported operand")
        ELSE IF \E i \in Rows(t) :
                   /\ ~IsNa(t, sold_column, i)
                   /\ t.data[column][i] > t.data[sold_column][i]
        THEN Raise("ValueError", "Units Returned validation failed: returned units exceed sold units.")
        ELSE Returned

validate_price(t) ==
    LET column == "Price"
    IN  IF column \notin t.columns
        THEN Raise("ValueError", "Price validation failed: column is missing.")
        ELSE IF AnyNa(t, column)
        THEN Raise("ValueError", "Price validation failed: missing values found.")
        ELSE IF ~is_numeric_dtype(t, column)
        THEN Raise("ValueError", "Price validation failed: non-numeric values found.")
        ELSE IF \E i \in Rows(t) : t.data[column][i] <= 0
        THEN Raise("ValueError", "Price validation failed: zero or negative values found.")
        ELSE Returned

\* validate_discount with the upper end of the interval left out
validate_discount_open(t) ==
    LET column == "Discount"
    IN  IF column \notin t.columns
        THEN Raise("ValueError", "Discount column validation failed: column is missing.")
        ELSE IF AnyNa(t, column)
        THEN Raise("ValueError", "Discount column validation failed: missing values found.")
        ELSE IF ~is_numeric_dtype(t, column)
        THEN Raise("ValueError", "Discount validation failed: non-numeric values found.")
        ELSE IF \E i \in Rows(t) :
                   (t.data[column][i] < 0) \/ (t.data[column][i] >= DiscScale)
        THEN Raise("ValueError", "Discount column validation failed: values outside range 0... 1 found.")
        ELSE Returned

validate_discount(t) ==
    LET column == "Discount"
    IN  IF column \notin t.columns
        THEN Raise("ValueError", "Discount column validation failed: column is missing.")
        ELSE IF AnyNa(t, column)
        THEN Raise("ValueError", "Discount column validation failed: missing values found.")
        ELSE IF ~is_numeric_dtype(t, column)
        THEN Raise("ValueError", "Discount validation failed: non-numeric values found.")
        ELSE IF \E i \in Rows(t) :
                   (t.data[column][i] < 0) \/ (t.data[column][i] > DiscScale)
        THEN Raise("ValueError", "Discount column validation failed: values outside range 0... 1 found.")
        ELSE Returned

Abs(x) == IF x < 0 THEN -x ELSE x

\* float arithmetic: a missing operand gives a missing result
Mul(a, b) == IF a = NaN \/ b = NaN THEN NaN ELSE a * b
OneMinus(d) == IF d = NaN THEN NaN ELSE DiscScale - d

\* np.isclose(a, b, atol=atol): |a - b| <= atol + rtol * |b| with the default
\* rtol, false for a missing operand.  a, b and atol are whole Revenue units,
\* so comparing with the floor of rtol * |b| is exact.
isclose(a, b, atol) ==
    /\ a # NaN
    /\ b # NaN
    /\ Abs(a - b) <= atol + (Abs(b) \div RtolDen)

validate_revenue(t, tolerance) ==
    LET required_columns == {"Revenue", "Units Sold", "Price", "Discount"}
        missing == required_columns \ t.columns
        us(i) == t.data["Units Sold"][i]
        revenue_f1(i) == Mul(Mul(us(i), t.data["price"][i]), DiscScale)
        revenue_f2(i) == Mul(Mul(us(i), t.data["Price"][i]), OneMinus(t.data["Discount"][i]))
        revenue_f3(i) == Mul(Mul(us(i), t.data["Price"][i]), t.data["Discount"][i])
        valid_rows ==
            {i \in Rows(t) :
                \/ isclose(t.data["Revenue"][i], revenue_f1(i), tolerance)
                \/ isclose(t.data["Revenue"][i], revenue_f2(i), tolerance)
                \/ isclose(t.data["Revenue"][i], revenue_f3(i), tolerance)}
    IN  IF missing # {}
        THEN [Raise("ValueError", "Revenue validation failed: missing required columns")
                 EXCEPT !.cols = missing]
        ELSE IF "price" \notin t.columns
        THEN Raise("KeyError", "price")
        ELSE IF \E c \in required_columns \cup {"price"} : t.dtype[c] = "object"
        THEN Raise("TypeError", "unsupported operand")
        ELSE IF valid_rows # Rows(t)
        THEN [Raise("ValueError", "Revenue validation failed: rows do not match any valid formula")
                 EXCEPT !.count = Cardinality(Rows(t) \ valid_rows)]
        ELSE Returned

\* ------------------------------------------------- Spec: validators applied
NotRun == [exc |-> "", msg |-> "not run", cols |-> {}, mismatches |-> NoMismatch, count |-> 0]

Init ==
    /\ df \in Tables
    /\ call = <<>>
    /\ result = NotRun
    /\ pc = "harness"
    /\ ns = {}
    /\ out = <<>>
    /\ out0 = <<>>
    /\ written = FALSE
    /\ err = ""
    /\ ran = <<>>

\* One application of a validator to the table; the validators leave the
\* table as it is, so a second application would show nothing new.
Apply(f, r) ==
    /\ pc = "harness"
    /\ call = <<>>
    /\ call' = f
    /\ result' = r
    /\ UNCHANGED <<df, pc, ns, out, out0, written, err, ran>>

Call_validate_schema ==
    Apply(<<"validate_schema">>, validate_schema(df, REQUIRED_COLUMNS))

Call_convert_date ==
    \E r \in convert_date(df) : Apply(<<"convert_date">>, r)

Call_validate_dtypes ==
    Apply(<<"validate_dtypes">>, validate_dtypes(df))

AllowedFor(column) ==
    CASE column = "Product Name" -> ALLOWED_PRODUCT_NAMES
      [] column = "Category" -> ALLOWED_CATEGORIES
      [] column = "Location" -> ALLOWED_LOCATIONS
      [] OTHER -> ALLOWED_PLATFORMS

Call_validate_allowed_values ==
    \E column \in {"Product Name", "Category", "Location", "Platform"},
       allow_null \in BOOLEAN, normalize \in BOOLEAN :
        Apply(<<"validate_allowed_values", column, allow_null, normalize>>,
              validate_allowed_values(df, column, AllowedFor(column), allow_null, normalize))

Call_validate_sold_units ==
    Apply(<<"validate_sold_units">>, validate_sold_units(df))

Call_validate_units_returned ==
    Apply(<<"validate_units_returned">>, validate_units_returned(df))

Call_validate_price ==
    Apply(<<"validate_price">>, validate_price(df))

Call_validate_discount ==
    Apply(<<"validate_discount">>, validate_discount(df))

Call_validate_revenue ==
    Apply(<<"validate_revenue">>, validate_revenue(df, TOLERANCE))

Next ==
    \/ Call_validate_schema
    \/ Call_convert_date
    \/ Call_validate_dtypes
    \/ Call_validate_allowed_values
    \/ Call_validate_sold_units
    \/ Call_validate_units_returned
    \/ Call_validate_price
    \/ Call_validate_discount
    \/ Call_validate_revenue

Spec == Init /\ [][Next]_vars

\* ------------------------------------------------ SpecRun: the script run
\* The namespace had the three helpers and their arguments been bound too,
\* main still missing.
NamespaceWithHelpers ==
    {"Path", "sys", "pd", "np", "RAW_PATH", "CLEAN_PATH", "REQUIRED_COLUMNS",
     "ALLOWED_PRODUCT_NAMES", "ALLOWED_CATEGORIES", "ALLOWED_LOCATIONS",
     "ALLOWED_PLATFORMS", "TOLERANCE", "validate_schema", "convert_date",
     "validate_dtypes", "validate_allowed_values", "validate_sold_units",
     "validate_units_returned", "validate_price", "validate_discount",
     "validate_revenue", "drop_temporary_columns", "validate_missing_required",
     "write_clean_csv", "df", "required_columns", "out_path"}

\* The names lines 34-296 bind: the imports, the constants, the functions.
ModuleNamespace ==
    {"Path", "sys", "pd", "np", "RAW_PATH", "CLEAN_PATH", "REQUIRED_COLUMNS",
     "ALLOWED_PRODUCT_NAMES", "ALLOWED_CATEGORIES", "ALLOWED_LOCATIONS",
     "ALLOWED_PLATFORMS", "TOLERANCE", "validate_schema", "convert_date",
     "validate_dtypes", "validate_allowed_values", "validate_sold_units",
     "validate_units_returned", "validate_price", "validate_discount",
     "validate_revenue"}

\* The statements after the definitions, each with the names it evaluates,
\* in the order Python evaluates them (the callee first).
Statements ==
    [line299 |-> <<"drop_temporary_columns", "df">>,
     line300 |-> <<"validate_missing_required", "df", "required_columns">>,
     line301 |-> <<"write_clean_csv", "df", "out_path">>,
     line303 |-> <<"main">>,
     line305 |-> <<"_name_", "main">>]

NextLine ==
    [line299 |-> "line300", line300 |-> "line301", line301 |-> "line303",
     line303 |-> "line305", line305 |-> "exit"]

\* The previous output of a run, a one-row table.
OldOutput == BaseTable(1)

InitRun ==
    /\ df \in Tables
    /\ call = <<>>
    /\ result = NotRun
    /\ pc = "line34"
    /\ ns = {}
    /\ out0 \in {<<>>, <<OldOutput>>}
    /\ out = out0
    /\ written = FALSE
    /\ err = ""
    /\ ran = <<>>

\* Lines 34-296: imports, constants and function definitions only bind names.
Define ==
    /\ pc = "line34"
    /\ ns' = ModuleNamespace
    /\ pc' = "line299"
    /\ UNCHANGED <<df, call, result, out, out0, written, err, ran>>

\* One statement of lines 299-305: a name that is not bound raises NameError,
\* which ends the run; otherwise the call is made, and write_clean_csv is
\* the call that creates the csv file (step 19 of the header).
ExecStatement ==
    /\ pc \in DOMAIN Statements
    /\ LET names == Statements[pc]
           unbound == {i \in 1..Len(names) : names[i] \notin ns}
       IN  /\ ran' = Append(ran, names[1])
           /\ IF unbound # {}
              THEN /\ pc' = "failed"
                   /\ err' = "NameError"
                   /\ UNCHANGED <<out, written>>
              ELSE /\ pc' = NextLine[pc]
                   /\ err' = err
                   /\ IF names[1] = "write_clean_csv"
                      THEN out' = <<df>> /\ written' = TRUE
                      ELSE UNCHANGED <<out, written>>
    /\ UNCHANGED <<df, call, result, ns, out0>>

NextRun ==
    \/ Define
    \/ ExecStatement

SpecRun == InitRun /\ [][NextRun]_vars

RunEnded == pc \in {"failed", "exit"}

\* ------------------------------------------------------------- the claims
\* The data model's invariants: the columns, their types, the allowed
\* values, the bounds, and a Revenue within TOLERANCE of one formula.
CellsIn(t, c, S) == \A i \in Rows(t) : t.data[c][i] \in S

WithinTolerance(a, b, tol) == a # NaN /\ b # NaN /\ Abs(a - b) <= tol

\* Row i's Revenue is within tol of Units Sold x Price, x (1 - Discount) or
\* x Discount, by the absolute difference alone.
MatchesAFormula(t, i, tol) ==
    LET base == Mul(t.data["Units Sold"][i], t.data["Price"][i])
        r == t.data["Revenue"][i]
    IN  \/ WithinTolerance(r, Mul(base, DiscScale), tol)
        \/ WithinTolerance(r, Mul(base, OneMinus(t.data["Discount"][i])), tol)
        \/ WithinTolerance(r, Mul(base, t.data["Discount"][i]), tol)

SatisfiesDataModel(t) ==
    /\ REQUIRED_COLUMNS \subseteq t.columns
    /\ NRows(t) >= 1
    /\ \A c \in REQUIRED_COLUMNS \ {"Date"} : t.dtype[c] = expected_dtypes[c]
    /\ \A c \in REQUIRED_COLUMNS : ~AnyNa(t, c)
    /\ CellsIn(t, "Product Name", ALLOWED_PRODUCT_NAMES)
    /\ CellsIn(t, "Category", ALLOWED_CATEGORIES)
    /\ CellsIn(t, "Location", ALLOWED_LOCATIONS)
    /\ CellsIn(t, "Platform", ALLOWED_PLATFORMS)
    /\ \A i \in Rows(t) :
          /\ t.data["Units Sold"][i] >= 0
          /\ t.data["Units Returned"][i] >= 0
          /\ t.data["Units Returned"][i] <= t.data["Units Sold"][i]
          /\ t.data["Price"][i] > 0
          /\ t.data["Discount"][i] >= 0
          /\ t.data["Discount"][i] <= DiscScale
          /\ MatchesAFormula(t, i, TOLERANCE)

\* The written table has the input's columns and rows, the Date aside.
SameButDate(w, t) ==
    /\ w.columns = t.columns
    /\ NRows(w) = NRows(t)
    /\ \A c \in t.columns \ {"Date"} : w.data[c] = t.data[c]

\* C1: a run on a table that satisfies every invariant of the data model
\* ends in success, having written the input table, its Date normalized.
C1_ValidTableIsWritten ==
    (RunEnded /\ SatisfiesDataModel(df)) =>
        /\ pc = "exit"
        /\ err = ""
        /\ written
        /\ Len(out) = 1
        /\ SameButDate(out[1], df)

\* C2: a run that ends in failure has not written the output file: the
\* file is as it was before the run, absent or with its old content; and
\* the file is written only once every validation stage has been run and
\* none has failed.
ValidationStages ==
    {"validate_schema", "convert_date", "validate_dtypes", "validate_allowed_values",
     "validate_sold_units", "validate_units_returned", "validate_price",
     "validate_discount", "validate_revenue", "validate_missing_required"}

Started == {ran[i] : i \in 1..Len(ran)}

C2_NoOutputOnFailure ==
    /\ pc = "failed" => (~written /\ out = out0)
    /\ written => (ValidationStages \subseteq Started /\ err = "")

\* C2's case: a run has failed and the output file of an earlier run is
\* still there, unchanged.
C2_Witness ==
    /\ pc = "failed"
    /\ err = "NameError"
    /\ out0 = <<OldOutput>>
    /\ out = out0
    /\ ~written

\* C3: a run on a table that lacks a required column fails with the schema
\* error naming the missing columns, the schema check being the only stage
\* that has run.
C3_MissingColumnFailsInSchemaCheck ==
    (RunEnded /\ REQUIRED_COLUMNS \ df.columns # {}) =>
        /\ pc = "failed"
        /\ err = "Schema validation failed. Missing required columns"
        /\ ran = <<"validate_schema">>

\* validate_schema alone raises exactly when a required column is absent,
\* naming the absent columns (the part of C3 that is about the function).
ValidateSchemaRaisesIffMissing ==
    call = <<"validate_schema">> =>
        /\ (result.exc = "ValueError") <=> (REQUIRED_COLUMNS \ df.columns # {})
        /\ result.cols = REQUIRED_COLUMNS \ df.columns
        /\ (result = Returned) <=> (REQUIRED_COLUMNS \subseteq df.columns)

\* Some row returns more units than it sold.
ReturnsExceedSales(t) ==
    /\ {"Units Sold", "Units Returned"} \subseteq t.columns
    /\ t.dtype["Units Sold"] # "object"
    /\ t.dtype["Units Returned"] # "object"
    /\ \E i \in Rows(t) :
          /\ ~IsNa(t, "Units Sold", i)
          /\ ~IsNa(t, "Units Returned", i)
          /\ t.data["Units Returned"][i] > t.data["Units Sold"][i]

\* C4: a run on a table with a row where Units Returned > Units Sold fails
\* with the Units Returned validator's cross-column error, and writes nothing.
C4_ExcessReturnsFailCrossColumn ==
    (RunEnded /\ ReturnsExceedSales(df)) =>
        /\ pc = "failed"
        /\ err = "Units Returned validation failed: returned units exceed sold units."
        /\ ~written

\* validate_units_returned alone raises on such a table, and with the
\* cross-column error when no cell of the column is missing or negative
\* (the part of C4 that is about the function).
UnitsReturnedRaisesOnExcess ==
    (call = <<"validate_units_returned">> /\ ReturnsExceedSales(df)) =>
        /\ result.exc = "ValueError"
        /\ (\A i \in Rows(df) : ~IsNa(df, "Units Returned", i) /\ df.data["Units Returned"][i] >= 0)
              => result.msg = "Units Returned validation failed: returned units exceed sold units."

\* The one-row table of 10 units at 2.0 with discount 0.1 and revenue r.
RoundTripTable(r) == WithColumn("Revenue", "float64", <<r>>)

\* C5: for 10 units at 2.0 with discount 0.1, validate_revenue with
\* tolerance 0.01 passes a Revenue of 18.0, of 20.0 and of 0.2, and fails
\* a Revenue of 5.0.
C5_RevenueRoundTrip ==
    call = <<"validate_revenue">> =>
        /\ df \in {RoundTripTable(1800000), RoundTripTable(2000000), RoundTripTable(20000)}
              => result = Returned
        /\ df = RoundTripTable(500000)
              => /\ result.exc = "ValueError"
                 /\ result.msg = "Revenue validation failed: rows do not match any valid formula"

\* C6: with a Discount column that exists, is numeric and has no missing
\* value, validate_discount passes exactly when every value is in [0, 1],
\* both ends included.
C6_DiscountClosedInterval ==
    ( /\ call = <<"validate_discount">>
      /\ "Discount" \in df.columns
      /\ is_numeric_dtype(df, "Discount")
      /\ ~AnyNa(df, "Discount") ) =>
        /\ (result = Returned) <=>
              \A i \in Rows(df) :
                  df.data["Discount"][i] >= 0 /\ df.data["Discount"][i] <= DiscScale
        /\ result # Returned =>
              /\ result.exc = "ValueError"
              /\ result.msg = "Discount column validation failed: values outside range 0... 1 found."

\* C6's case: validate_discount has passed a column holding both ends of
\* the interval, 0 and 1.
C6_Witness ==
    /\ call = <<"validate_discount">>
    /\ "Discount" \in df.columns
    /\ is_numeric_dtype(df, "Discount")
    /\ \E i \in Rows(df) : df.data["Discount"][i] = 0
    /\ \E i \in Rows(df) : df.data["Discount"][i] = DiscScale
    /\ result = Returned

\* What str.strip makes of the cells of the Platform tables.
Stripped(v) ==
    CASE v = " Amazon " -> "Amazon"
      [] v = "   " -> ""
      [] OTHER -> v

\* C7: called with nulls disallowed and normalization on, the allowed-values
\* check passes a column exactly when every cell, trimmed, is in the allowed
\* set (" Amazon " passes, "amazon" fails as an invalid value), and fails a
\* column with a missing or blank cell with the missing-value error,
\* whatever its other cells.
C7_TrimmedCaseSensitiveMembership ==
    ( /\ call = <<"validate_allowed_values", "Platform", FALSE, TRUE>>
      /\ "Platform" \in df.columns
      /\ df.dtype["Platform"] = "object" ) =>
        LET cells == {df.data["Platform"][i] : i \in Rows(df)}
            blank == {v \in cells : v = NaNStr \/ Stripped(v) = ""}
        IN  IF blank # {}
            THEN /\ result.exc = "ValueError"
                 /\ result.msg = "Allowed values validation failed: missing/blank values found."
            ELSE IF \A v \in cells : Stripped(v) \in ALLOWED_PLATFORMS
            THEN result = Returned
            ELSE /\ result.exc = "ValueError"
                 /\ result.msg = "Allowed values validation failed. Invalid values"

\* The stages of the system overview, in order, as the calls that run them.
StageOrder ==
    <<"validate_schema", "convert_date", "validate_dtypes",
      "validate_allowed_values", "validate_allowed_values",
      "validate_sold_units", "validate_units_returned", "validate_price",
      "validate_discount", "validate_revenue",
      "validate_allowed_values", "validate_allowed_values",
      "drop_temporary_columns", "validate_missing_required", "write_clean_csv">>

\* C8: the calls a run makes are the stages in their fixed order, from the
\* schema check on, each once; a failure is the last call made, and nothing
\* is written after it.
C8_StagesInFixedOrder ==
    /\ Len(ran) <= Len(StageOrder)
    /\ \A i \in 1..Len(ran) : ran[i] = StageOrder[i]
    /\ pc = "failed" => ~written
    /\ pc = "exit" => ran = StageOrder

\* With a column named "price" beside "Price", validate_revenue gets as far
\* as the comparison: it passes 18.0, 20.0 and 2.0 (the three formulas for
\* 10 units at 2.0 with discount 0.1) and fails 0.2 and 5.0; and it passes
\* 20.0101, which is further than the tolerance from all three.
RevenueWithLowerPriceColumn ==
    call = <<"validate_revenue">> =>
        /\ \A r \in {1800000, 2000000, 200000, 2001010} :
              df = WithLowerPrice(RoundTripTable(r)) => result = Returned
        /\ \A r \in {20000, 500000} :
              df = WithLowerPrice(RoundTripTable(r)) => (result.exc = "ValueError" /\ result.count = 1)

\* C9: on a table with the Revenue, Units Sold, Price and Discount columns,
\* validate_revenue accepts exactly when every row's Revenue is within the
\* tolerance of one of the three formulas by the absolute difference, and
\* otherwise fails with the revenue-mismatch error counting the rows that
\* match none.
C9_RevenueAcceptsIffAFormulaMatches ==
    ( /\ call = <<"validate_revenue">>
      /\ {"Revenue", "Units Sold", "Price", "Discount"} \subseteq df.columns
      /\ \A c \in {"Revenue", "Units Sold", "Price", "Discount"} :
            is_numeric_dtype(df, c) ) =>
        LET unmatched == {i \in Rows(df) : ~MatchesAFormula(df, i, TOLERANCE)}
        IN  IF unmatched = {}
            THEN result = Returned
            ELSE /\ result.exc = "ValueError"
                 /\ result.msg = "Revenue validation failed: rows do not match any valid formula"
                 /\ result.count = Cardinality(unmatched)

\* C10: validate_dtypes fails exactly when a column that is present has
\* another type than expected, a column that is absent counting for nothing,
\* and its one report then lists every such column, and only those, each
\* with its expected and its actual type.
C10_DtypeReportListsEveryMismatch ==
    call = <<"validate_dtypes">> =>
        LET present == DOMAIN expected_dtypes \cap df.columns
            differing == {c \in present : df.dtype[c] # expected_dtypes[c]}
        IN  /\ (result = Returned) <=> (differing = {})
            /\ differing # {} =>
                  /\ result.exc = "ValueError"
                  /\ result.msg = "Dtype validation failed"
                  /\ DOMAIN result.mismatches = differing
                  /\ \A c \in differing :
                        result.mismatches[c] = <<expected_dtypes[c], df.dtype[c]>>

\* C10's case: validate_dtypes has reported two mismatching columns at once
\* on a table that also lacks a column.
C10_Witness ==
    /\ call = <<"validate_dtypes">>
    /\ REQUIRED_COLUMNS \ df.columns # {}
    /\ result.exc = "ValueError"
    /\ Cardinality(DOMAIN result.mismatches) >= 2

====
